---- MODULE Spec2Model ----
(***************************************************************************)
(* A model of the sandboxed JavaScript execution engine of dvt-bun:        *)
(* the code normalizer (cleanupCode) and the executor (executeJavaScript)  *)
(* of services/jsExecutor.ts, the POST /execute handler of                 *)
(* routes/execute.ts, and SyncResponse and RestClient of                   *)
(* utils/java-bridge.ts.                                                   *)
(*                                                                         *)
(* Text is modelled as a sequence of atoms.  An atom is either a single    *)
(* character of the classes the regular expressions of cleanupCode tell    *)
(* apart (white space, ';', '{', '}', ',', '*', '=', '.', a quote), or a   *)
(* whole keyword the expressions name literally ("export", "default",      *)
(* "as", "from", "module", "exports"), or a whole word, or a whole         *)
(* function definition.  Keywords and words consist of \w characters only. *)
(***************************************************************************)
EXTENDS Integers, Sequences, FiniteSets, TLC

VARIABLES
    code,           \* request: the submitted code, a text
    codeType,       \* request: typeof code ("string", or what a caller passed instead)
    input,          \* request: the argument list
    functionName,   \* request: the function to call, a text
    skipWrapper,    \* request: the wrapper flag
    config,         \* the configuration (application.yml, execution section)
    pc,             \* where executeJavaScript (or the normalizer run) stands
    now,            \* performance.now() - startTime, in microseconds
    cleanedCode,    \* cleanupCode(code)
    normTwice,      \* cleanupCode(cleanupCode(code)), normalizer runs only
    processedCode,  \* the code after the RestClient auto-await pre-pass
    vm,             \* the isolate: << >> (null), or << [timeout, sandbox, allowAsync] >>
    vmCreated,      \* how many isolates this call has constructed
    wrappedCode,    \* the harness handed to vm.run: << >>, or << harness >>
    pending,        \* the exception in flight to the outer catch: << >>, or << error >>
    outcome,        \* what the call gave its caller: << >>, or << result or failure >>
    timers,         \* the host timers the isolate has scheduled and nothing has cleared
    http,           \* POST /execute: << >> (a direct call), or << what the body holds >>
    response,       \* POST /execute: << >>, or << the Response returned >>
    sys,            \* POST /execute-with-sys: the tenant header, the fate of the token
                    \* fetch, the request's input, the token and the system variable
    handle,         \* SyncResponse: its promise and its fields resolved, result, error
    poll,           \* SyncResponse.toString: where the coercion stands, and attempts
    coerced,        \* SyncResponse: what each coercion so far gave, in order
    restCall,       \* RestClient.call: its arguments method, headers, body
    restEnv,        \* RestClient.call: what the token fetch and the network will do
    restPc,         \* RestClient.makeHttpCall: where it stands
    jwtToken,       \* RestClient.makeHttpCall: the token getAccessToken returned
    fetchOptions,   \* RestClient.makeHttpCall: the options built for fetch
    sent,           \* the requests fetch has issued, in order
    restOutcome,    \* what call() gave its caller: << >>, or << value or error >>
    client,         \* the class asked of Java.type, what it gave, what call()
                    \* returned to the script and what String() made of that
    calls,          \* concurrent calls of executeJavaScript: the locals of each
    isolates        \* every isolate constructed so far: who made it, who ran in it

execVars == << code, codeType, input, functionName, skipWrapper, config, pc, now,
               cleanedCode, normTwice, processedCode, vm, vmCreated, wrappedCode,
               pending, outcome, timers >>
httpVars == << http, response, sys >>
bridgeVars == << handle, poll, coerced >>
restVars == << restCall, restEnv, restPc, jwtToken, fetchOptions, sent, restOutcome,
              client >>

pairVars == << calls, isolates >>

vars == << execVars, httpVars, bridgeVars, restVars, pairVars >>

\* the parts of the state a specification does not exercise
NoSys == [ tenant |-> << >>, iam |-> "token", original |-> << >>, iamToken |-> << >>,
           variable |-> << >> ]

NoHttp == http = << >> /\ response = << >> /\ sys = NoSys

NoBridge ==
    /\ handle = [ promise |-> "pending", fate |-> "never", resolved |-> FALSE,
                  result |-> "", error |-> << >> ]
    /\ poll = [ pc |-> "idle", attempts |-> 0, via |-> "toString", began |-> "pending" ]
    /\ coerced = << >>

NoExecution ==
    /\ code = << >> /\ codeType = "string" /\ input = << >> /\ functionName = << >>
    /\ skipWrapper = FALSE /\ pc = "off" /\ now = 0
    /\ cleanedCode = << >> /\ normTwice = << >> /\ processedCode = << >>
    /\ vm = << >> /\ vmCreated = 0 /\ wrappedCode = << >>
    /\ pending = << >> /\ outcome = << >> /\ timers = { }

NoPair == calls = << >> /\ isolates = << >>

NoClient == [ className |-> "", type |-> << >>, returned |-> << >>, text |-> << >> ]

NoRest ==
    /\ restCall = [ method |-> "GET", headers |-> { }, body |-> << >> ]
    /\ restEnv = [ iam |-> "token", net |-> "ok" ]
    /\ restPc = "off"
    /\ jwtToken = << >>
    /\ fetchOptions = << >>
    /\ sent = << >>
    /\ restOutcome = << >>
    /\ client = NoClient

(***************************************************************************)
(* Regular expressions, as cleanupCode writes them: a sequence of items,   *)
(* each a character class with a quantifier.                               *)
(***************************************************************************)
Space == {" ", "\n"}
Word == {"f", "g", "export", "default", "as", "from", "module", "exports"}
Quote == {"'", "\""}

One(S) == [set |-> S, q |-> "one"]
Opt(S) == [set |-> S, q |-> "opt"]
Star(S) == [set |-> S, q |-> "star"]
Lit(a) == One({a})

\* Whether t, from position j to its end, matches items i.. of re ($-anchored).
RECURSIVE MatchFrom(_, _, _, _)
MatchFrom(re, t, i, j) ==
    IF i > Len(re) THEN j = Len(t) + 1
    ELSE LET it == re[i]
             here == j <= Len(t) /\ t[j] \in it.set
         IN CASE it.q = "one" -> here /\ MatchFrom(re, t, i + 1, j + 1)
              [] it.q = "opt" -> MatchFrom(re, t, i + 1, j)
                                 \/ (here /\ MatchFrom(re, t, i + 1, j + 1))
              [] it.q = "star" -> MatchFrom(re, t, i + 1, j)
                                  \/ (here /\ MatchFrom(re, t, i, j + 1))

\* The same replacement had the expression lost its $: the leftmost match goes,
\* wherever it ends (the longest one from there).
ReplaceAnywhere(s, re) ==
    LET hits == {ij \in (1..(Len(s) + 1)) \X (0..Len(s)) :
                    /\ ij[2] >= ij[1] - 1
                    /\ MatchFrom(re, SubSeq(s, ij[1], ij[2]), 1, 1)}
    IN IF hits = {} THEN s
       ELSE LET i == CHOOSE i \in {h[1] : h \in hits} : \A h \in hits : i <= h[1]
                j == CHOOSE j \in {h[2] : h \in hits} :
                        /\ << i, j >> \in hits
                        /\ \A h \in hits : h[1] = i => h[2] <= j
            IN SubSeq(s, 1, i - 1) \o SubSeq(s, j + 1, Len(s))

\* The leftmost position from i on where a match of re begins, or 0.
RECURSIVE FirstMatch(_, _, _)
FirstMatch(re, s, i) ==
    IF i > Len(s) + 1 THEN 0
    ELSE IF MatchFrom(re, s, 1, i) THEN i
    ELSE FirstMatch(re, s, i + 1)

\* s.replace(re, ''), re ending in $ and not global: the leftmost match goes.
ReplaceTail(s, re) ==
    CHOOSE r \in { IF at = 0 THEN s ELSE SubSeq(s, 1, at - 1) :
                      at \in { FirstMatch(re, s, 1) } } : TRUE

\* String.prototype.trim
RECURSIVE TrimEnd(_)
TrimEnd(s) ==
    IF s # <<>> /\ s[Len(s)] \in Space THEN TrimEnd(SubSeq(s, 1, Len(s) - 1)) ELSE s

RECURSIVE TrimStart(_)
TrimStart(s) ==
    IF s # <<>> /\ s[1] \in Space THEN TrimStart(Tail(s)) ELSE s

Trim(s) == TrimStart(TrimEnd(s))

\* /\s*;?\s*$/
SemiTail == << Star(Space), Opt({";"}), Star(Space) >>

\* /\s*export\s*\{\s*\w+\s*as\s*default\s*\}$/
ExportAsDefault ==
    << Star(Space), Lit("export"), Star(Space), Lit("{"), Star(Space),
       One(Word), Star(Word), Star(Space), Lit("as"), Star(Space),
       Lit("default"), Star(Space), Lit("}") >>

\* /\s*export\s*default\s+\w+$/
ExportDefault ==
    << Star(Space), Lit("export"), Star(Space), Lit("default"),
       One(Space), Star(Space), One(Word), Star(Word) >>

\* /\s*export\s*\{\s*[\w\s,]+\s*\}$/
ExportList ==
    << Star(Space), Lit("export"), Star(Space), Lit("{"), Star(Space),
       One(Word \cup Space \cup {","}), Star(Word \cup Space \cup {","}),
       Star(Space), Lit("}") >>

\* /\s*export\s*\*\s*from\s*['"]\w+['"]$/
ExportStar ==
    << Star(Space), Lit("export"), Star(Space), Lit("*"), Star(Space),
       Lit("from"), Star(Space), One(Quote), One(Word), Star(Word), One(Quote) >>

\* /\s*module\.exports\s*=\s*\w+$/
ModuleExports ==
    << Star(Space), Lit("module"), Lit("."), Lit("exports"), Star(Space),
       Lit("="), Star(Space), One(Word), Star(Word) >>

endExportPatterns ==
    << ExportAsDefault, ExportDefault, ExportList, ExportStar, ModuleExports >>

\* for (const pattern of endExportPatterns) c = c.replace(pattern, '').trim()
RECURSIVE ApplyPatterns(_, _)
ApplyPatterns(c, k) ==
    IF k > Len(endExportPatterns) THEN c
    ELSE CHOOSE r \in { ApplyPatterns(d, k + 1) :
                           d \in { Trim(ReplaceTail(c, endExportPatterns[k])) } } : TRUE

\* do { ... } while (cleanedCode.length < previousLength && cleanedCode.length > 0)
RECURSIVE CleanupLoop(_)
CleanupLoop(c) ==
    CHOOSE r \in { IF Len(d) < Len(c) /\ Len(d) > 0 THEN CleanupLoop(d) ELSE d :
                      d \in { ApplyPatterns(c, 1) } } : TRUE

\* cleanupCode without its first replacement
KeepSemicolon(c) == c

StripSemicolon(c) == ReplaceTail(c, SemiTail)

cleanupCode(c) == CleanupLoop(StripSemicolon(Trim(c)))

(***************************************************************************)
(* Configuration: the execution section of application.yml.                *)
(***************************************************************************)
DefaultConfig ==
    [ timeout |-> 5000, allowHttp |-> TRUE, allowConsole |-> TRUE, allowTimers |-> TRUE ]

(***************************************************************************)
(* The normalizer on its own: the input is drawn from the concatenations   *)
(* of at most MaxPieces pieces, then cleanupCode is applied to it, and     *)
(* once more to its own result.                                            *)
(***************************************************************************)
MaxPieces == 4

DefAdd == "function add(a,b){return a+b;}"

NormPieces ==
    { << DefAdd >>, << " " >>, << ";" >>, << "'" >>,
      << "export", "{", "f", " ", "as", " ", "default", "}" >>,
      << "export", " ", "default", " ", "f" >>,
      << "export", "{", "f", ",", "g", "}" >>,
      << "export", "*", "from", "'", "g", "'" >>,
      << "module", ".", "exports", "=", "f" >> }

RECURSIVE Concats(_, _)
Concats(P, n) ==
    IF n = 0 THEN { <<>> }
    ELSE LET shorter == Concats(P, n - 1)
         IN shorter \cup { s \o p : s \in shorter, p \in P }

NormInit ==
    /\ code \in Concats(NormPieces, MaxPieces)
    /\ pc = "norm_start"
    /\ codeType = "string"
    /\ cleanedCode = << >>
    /\ normTwice = << >>
    /\ input = << >>
    /\ functionName = << >>
    /\ skipWrapper = FALSE
    /\ config = DefaultConfig
    /\ now = 0
    /\ processedCode = << >>
    /\ vm = << >>
    /\ vmCreated = 0
    /\ wrappedCode = << >>
    /\ pending = << >>
    /\ outcome = << >>
    /\ timers = { }
    /\ NoHttp /\ NoBridge /\ NoRest /\ NoPair

NormFrame ==
    UNCHANGED << code, codeType, input, functionName, skipWrapper, config, now,
                 processedCode, vm, vmCreated, wrappedCode, pending, outcome,
                 timers, httpVars, bridgeVars, restVars, pairVars >>

Normalize ==
    /\ pc = "norm_start"
    /\ cleanedCode' = cleanupCode(code)
    /\ pc' = "norm_once"
    /\ UNCHANGED normTwice
    /\ NormFrame

NormalizeAgain ==
    /\ pc = "norm_once"
    /\ normTwice' = cleanupCode(cleanedCode)
    /\ pc' = "norm_twice"
    /\ UNCHANGED cleanedCode
    /\ NormFrame

NormNext == Normalize \/ NormalizeAgain

SpecNorm == NormInit /\ [][NormNext]_vars

(***************************************************************************)
(* The programs a request submits.  A function definition is one atom; the *)
(* name it declares and what a call of it does are read off the atom.      *)
(***************************************************************************)
DefSpin == "function spin(){while(true){}}"
DefNet == "function net(u){return fetch(u);}"
DefResult == "function __result__(a,b){return a+b;}"
DefBundle == "/* bundle of more than 1000 characters */ function big(a,b){return a+b;}"

DefNever == "async function never(){return new Promise(function(){});}"

DefBoom == "function boom(){throw new Error('boom');}"
DefToss == "function toss(){throw 42;}"
DefLater == "function later(){setTimeout(function(){},60000);return 1;}"

DefSys == "function withSys(sys,a,b){return a+b;}"

DefAtoms ==
    { DefAdd, DefSpin, DefNet, DefResult, DefBundle, DefNever, DefBoom, DefToss, DefLater,
      DefSys }

DefName(d) ==
    CASE d = DefAdd -> << "add" >>
      [] d = DefSpin -> << "spin" >>
      [] d = DefNet -> << "net" >>
      [] d = DefResult -> << "__result__" >>
      [] d = DefBundle -> << "big" >>
      [] d = DefNever -> << "never" >>
      [] d = DefBoom -> << "boom" >>
      [] d = DefToss -> << "toss" >>
      [] d = DefLater -> << "later" >>
      [] d = DefSys -> << "withSys" >>

\* "pure": returns the sum of its two arguments; "busy": never returns;
\* "fetch": calls the sandbox's fetch binding; "unsettled": returns at once a
\* promise that never settles; "throws": throws an Error; "tosses": throws a
\* number; "timer": schedules a timeout of a minute and returns 1; "afterSys":
\* returns the sum of its second and third arguments
DefKind(d) ==
    CASE d \in { DefAdd, DefResult, DefBundle } -> "pure"
      [] d = DefSpin -> "busy"
      [] d = DefNet -> "fetch"
      [] d = DefNever -> "unsettled"
      [] d = DefBoom -> "throws"
      [] d = DefToss -> "tosses"
      [] d = DefLater -> "timer"
      [] d = DefSys -> "afterSys"

\* String.prototype.length of one atom (only DefBundle is longer than the
\* 1000 characters the bundled-code test asks for)
CharLen(a) ==
    CASE a = DefBundle -> 1200
      [] a \in DefAtoms -> 40
      [] a \in { "export", "module" } -> 6
      [] a \in { "default", "exports" } -> 7
      [] a = "from" -> 4
      [] a = "as" -> 2
      [] OTHER -> 1

RECURSIVE Length(_)
Length(s) == IF s = << >> THEN 0 ELSE CharLen(s[1]) + Length(Tail(s))

\* s.includes(sub), sub a text of atoms
ContainsSub(s, sub) ==
    \E i \in 1..(Len(s) - Len(sub) + 1) : SubSeq(s, i, i + Len(sub) - 1) = sub

\* message.includes(marker): a message is a sequence of fragments, and the
\* markers the classifier looks for are fragments of their own
Includes(m, marker) == \E i \in DOMAIN m : m[i] = marker

(***************************************************************************)
(* Values and their JSON text.                                             *)
(***************************************************************************)
MaxNumber == 40

Num(n) == [ t |-> "num", v |-> n ]
NaN == [ t |-> "nan", v |-> 0 ]
JsNull == [ t |-> "null", v |-> 0 ]
Response == [ t |-> "response", v |-> 0 ]
\* values with no JSON text of their own: a function, a symbol, an array
\* that holds itself
Fn == [ t |-> "function", v |-> 0 ]
Sym == [ t |-> "symbol", v |-> 0 ]
Circular == [ t |-> "circular", v |-> 0 ]

\* the string an object and a number add up to
Text == [ t |-> "string", v |-> 0 ]

BearerToken == << "Bearer abc" >>
AppHost == "https://newui-checking-sftp.platform-app-integ-test.cluster.jiffy.ai/platform"

\* the system variables a request can get, by tenant header and token
SystemVariables ==
    << [ appHost |-> AppHost, tenantId |-> "", authorization |-> "Bearer" ],
       [ appHost |-> AppHost, tenantId |-> "t1", authorization |-> "Bearer" ],
       [ appHost |-> AppHost, tenantId |-> "", authorization |-> BearerToken[1] ],
       [ appHost |-> AppHost, tenantId |-> "t1", authorization |-> BearerToken[1] ] >>

\* an object value: the i-th system variable
Obj(i) == [ t |-> "object", v |-> i ]

\* JSON.stringify of one array element
JsonValue(x) ==
    IF x.t = "num" THEN ToString(x.v)
    ELSE IF x.t = "object" THEN ToString(SystemVariables[x.v])
    ELSE "null"

RECURSIVE JsonItems(_)
JsonItems(s) ==
    IF s = << >> THEN << >>
    ELSE IF Len(s) = 1 THEN << JsonValue(s[1]) >>
    ELSE << JsonValue(s[1]), "," >> \o JsonItems(Tail(s))

\* JSON.stringify(input) throws a TypeError on a circular structure
JsonThrows(s) == \E i \in DOMAIN s : s[i].t = "circular"

JsonStringify(s) == << "[" >> \o JsonItems(s) \o << "]" >>

\* the array literal the harness holds, evaluated inside the isolate
ParseJsonValue(tok) ==
    IF tok = "null" THEN JsNull
    ELSE IF \E i \in DOMAIN SystemVariables : ToString(SystemVariables[i]) = tok
    THEN Obj(CHOOSE i \in DOMAIN SystemVariables : ToString(SystemVariables[i]) = tok)
    ELSE Num(CHOOSE n \in 0..MaxNumber : ToString(n) = tok)

RECURSIVE EvalArrayLiteral(_)
EvalArrayLiteral(text) ==
    IF text = << >> THEN << >>
    ELSE IF text[1] \in { "[", ",", "]" } THEN EvalArrayLiteral(Tail(text))
    ELSE << ParseJsonValue(text[1]) >> \o EvalArrayLiteral(Tail(text))

\* calling a "pure" definition with these arguments (null counts as 0 in a sum)
Sum(args) ==
    IF Len(args) >= 2 /\ { args[1].t, args[2].t } \subseteq { "num", "null" }
    THEN Num(args[1].v + args[2].v)
    ELSE IF Len(args) >= 2 /\ "object" \in { args[1].t, args[2].t }
    THEN Text
    ELSE NaN

(***************************************************************************)
(* validateCode, validateFunctionName                                      *)
(***************************************************************************)
IdStart == { "add", "spin", "net", "__result__", "big", "never", "boom", "toss",
             "later", "withSys", "missing", "timeout" }
IdPart == IdStart \cup { "1" }

\* /^[a-zA-Z_$][a-zA-Z0-9_$]*$/
validFunctionNamePattern == << One(IdStart), Star(IdPart) >>

CodeRequired == << "Code is required and must be a string" >>
NameRequired == << "Function name is required and must be a string" >>
NameInvalid == << "Function name must be a valid JavaScript identifier" >>

\* << >> when both validators return, else the message of the Error thrown
ValidationError(c, ctype, fn) ==
    IF ctype # "string" \/ c = << >> THEN << CodeRequired >>
    ELSE IF fn = << >> THEN << NameRequired >>
    ELSE IF ~MatchFrom(validFunctionNamePattern, fn, 1, 1) THEN << NameInvalid >>
    ELSE << >>

(***************************************************************************)
(* The RestClient auto-await pre-pass.                                     *)
(***************************************************************************)
JavaTypeRestClient == "Java.type(\"ai.jiffy.apex.utils.RestClient\")"
NewRestClient == "new RestClient()"

\* the end of a match of /myRestClient\.call\s*\(/ at the head of s, or 0
CallMatchEnd(s) ==
    IF Len(s) >= 3 /\ s[1] = "myRestClient" /\ s[2] = ".call"
       /\ \E k \in 3..Len(s) : s[k] = "(" /\ \A m \in 3..(k - 1) : s[m] \in Space
    THEN CHOOSE k \in 3..Len(s) : s[k] = "(" /\ \A m \in 3..(k - 1) : s[m] \in Space
    ELSE 0

\* s.replace(/myRestClient\.call\s*\(/g, 'await myRestClient.call(')
RECURSIVE AwaitCalls(_)
AwaitCalls(s) ==
    IF s = << >> THEN << >>
    ELSE IF CallMatchEnd(s) > 0
    THEN << "await", " ", "myRestClient", ".call", "(" >>
         \o AwaitCalls(SubSeq(s, CallMatchEnd(s) + 1, Len(s)))
    ELSE << s[1] >> \o AwaitCalls(Tail(s))

AutoAwait(c) ==
    IF /\ Includes(c, JavaTypeRestClient)
       /\ Includes(c, NewRestClient)
       /\ ContainsSub(c, << ".call", "(" >>)
    THEN AwaitCalls(c)
    ELSE c

\* The pre-pass on its own, over code that uses the client in every way the
\* pieces allow: with and without each marker, calls on myRestClient, on
\* another variable, and on a variable whose name ends in myRestClient.
MaxCallPieces == 4

Markers == { << >>, << JavaTypeRestClient, ";" >>, << NewRestClient, ";" >>,
             << JavaTypeRestClient, ";", NewRestClient, ";" >> }

CallPieces == { << "myRestClient", ".call" >>, << "client", ".call" >>,
                << "old" >>, << "(" >>, << " " >>, << ";" >> }

AwaitInit ==
    /\ \E m \in Markers, b \in Concats(CallPieces, MaxCallPieces) : cleanedCode = m \o b
    /\ pc = "await_start"
    /\ code = << >>
    /\ codeType = "string"
    /\ normTwice = << >>
    /\ input = << >>
    /\ functionName = << >>
    /\ skipWrapper = FALSE
    /\ config = DefaultConfig
    /\ now = 0
    /\ processedCode = << >>
    /\ vm = << >>
    /\ vmCreated = 0
    /\ wrappedCode = << >>
    /\ pending = << >>
    /\ outcome = << >>
    /\ timers = { }
    /\ NoHttp /\ NoBridge /\ NoRest /\ NoPair

\* let processedCode = cleanedCode; if (...) processedCode = cleanedCode.replace(...)
PrePass ==
    /\ pc = "await_start"
    /\ processedCode' = AutoAwait(cleanedCode)
    /\ pc' = "await_done"
    /\ UNCHANGED << code, codeType, input, functionName, skipWrapper, config, now,
                    cleanedCode, normTwice, vm, vmCreated, wrappedCode, pending,
                    outcome, timers, httpVars, bridgeVars, restVars, pairVars >>

AwaitNext == PrePass

SpecAwait == AwaitInit /\ [][AwaitNext]_vars

(***************************************************************************)
(* The isolate and the harness.                                            *)
(***************************************************************************)
VmTimeout == 15000

\* a sandbox that also hands the isolate the host's module loader
SandboxWithRequire ==
    [ fetch |-> "fetch", console |-> { "log", "error", "warn", "info" },
      document |-> "undefined", require |-> "require",
      process |-> [ env |-> { "NODE_ENV" }, nextTick |-> "setTimeout(cb, 0)" ] ]

\* the sandbox option of new VM({...}): every global the isolate is given
Sandbox ==
    [ fetch |-> "fetch",
      XMLHttpRequest |-> "XMLHttpRequest",
      console |-> { "log", "error", "warn", "info" },
      setTimeout |-> "setTimeout",
      clearTimeout |-> "clearTimeout",
      setInterval |-> "setInterval",
      clearInterval |-> "clearInterval",
      Promise |-> "Promise",
      URL |-> "URL",
      URLSearchParams |-> "URLSearchParams",
      Java |-> "JavaMock",
      RestClient |-> "RestClient",
      global |-> { "XMLHttpRequest", "fetch" },
      document |-> "undefined",
      process |-> [ env |-> { "NODE_ENV" }, nextTick |-> "setTimeout(cb, 0)" ] ]

NewVM == [ timeout |-> VmTimeout, sandbox |-> Sandbox, allowAsync |-> TRUE ]

NotFoundMessage(fn) ==
    << "Function \"" >> \o fn \o << "\" is ", "not defined", " or ", "not a function" >>

NotFoundInBundle(fn) == NotFoundMessage(fn) \o << " in bundled code" >>

isBundledCode(c) ==
    /\ ~ContainsSub(c, << "import", " " >>)
    /\ ~ContainsSub(c, << "export", " " >>)
    /\ Length(c) > 1000

\* a builder that wraps every request in the try/catch
HarnessAlwaysWrapped(c, fn, args, skip) ==
    [ shape |-> "wrapped", tryCatch |-> TRUE, code |-> c, guardName |-> fn,
      guardMessage |-> NotFoundMessage(fn), callName |-> fn,
      args |-> JsonStringify(args), declares |-> { << "__result__" >> } ]

\* the template literal: the code, the guard, the call; declares lists the
\* names the template itself declares beside the code (const __result__)
Harness(c, fn, args, skip) ==
    [ shape |-> IF ~skip THEN "wrapped"
                ELSE IF isBundledCode(c) THEN "bundled" ELSE "passthrough",
      tryCatch |-> ~skip,
      code |-> c,
      guardName |-> fn,
      guardMessage |-> IF skip /\ isBundledCode(c) THEN NotFoundInBundle(fn)
                       ELSE NotFoundMessage(fn),
      callName |-> fn,
      args |-> JsonStringify(args),
      declares |-> { << "__result__" >> } ]

(***************************************************************************)
(* vm.run(wrappedCode): what the isolate makes of a harness.  The script   *)
(* is parsed first (module syntax or a redeclared name are SyntaxErrors    *)
(* and nothing runs), then the code's statements run, then the guard, then *)
(* the call.                                                               *)
(***************************************************************************)
Returned(v) == [ kind |-> "value", value |-> v, message |-> << >>, isError |-> FALSE ]
Threw(m) == [ kind |-> "throw", value |-> JsNull, message |-> m, isError |-> TRUE ]
TimedOut == [ kind |-> "timeout", value |-> JsNull, message |-> << >>, isError |-> TRUE ]
\* the script ended (within the time limit) with a promise that never settles
Unsettled == [ kind |-> "unsettled", value |-> JsNull, message |-> << >>, isError |-> FALSE ]

\* the script threw a value that is not an Error
Tossed == [ kind |-> "throw", value |-> Num(42), message |-> << >>, isError |-> FALSE ]

BoomMessage == << "boom" >>

Declared(c) == { DefName(c[i]) : i \in { k \in DOMAIN c : c[k] \in DefAtoms } }

Call(d, args, box) ==
    CASE DefKind(d) = "pure" -> Returned(Sum(args))
      [] DefKind(d) = "busy" -> TimedOut
      [] DefKind(d) = "unsettled" -> Unsettled
      [] DefKind(d) = "afterSys" -> Returned(Sum(Tail(args)))
      [] DefKind(d) = "throws" -> Threw(BoomMessage)
      [] DefKind(d) = "tosses" -> Tossed
      [] DefKind(d) = "timer" ->
            IF "setTimeout" \in DOMAIN box THEN Returned(Num(1))
            ELSE Threw(<< "setTimeout is ", "not defined" >>)
      [] DefKind(d) = "fetch" ->
            IF "fetch" \in DOMAIN box THEN Returned(Response)
            ELSE Threw(<< "fetch is ", "not defined" >>)

\* the message of what is thrown before the call of the function is
\* reached, in << >>; << >> when the call is reached
ThrownBeforeCall(h) ==
    LET stray == { i \in DOMAIN h.code : h.code[i] \notin DefAtoms \cup Space \cup { ";" } }
    IN IF \E i \in stray : h.code[i] = "export"
       THEN << << "Unexpected token 'export'" >> >>
       ELSE IF Declared(h.code) \cap h.declares # { }
       THEN << << "Identifier '__result__' has already been declared" >> >>
       ELSE IF stray # { }
       THEN IF h.code[CHOOSE i \in stray : \A k \in stray : i <= k] = "module"
            THEN << << "module is ", "not defined" >> >>
            ELSE << << "Unexpected token" >> >>
       ELSE IF h.guardName \notin Declared(h.code)
       THEN << h.guardMessage >>
       ELSE << >>

\* the arguments the function is called with
CallArguments(h) == EvalArrayLiteral(h.args)

VmRun(h, box) ==
    IF ThrownBeforeCall(h) # << >>
    THEN Threw(ThrownBeforeCall(h)[1])
    ELSE Call(CHOOSE d \in DefAtoms : Includes(h.code, d) /\ DefName(d) = h.callName,
              CallArguments(h), box)

\* the host timers a run leaves scheduled: the sandbox hands the host's own
\* setTimeout to the script, and no step of executeJavaScript clears a timer
Scheduled(h, box) ==
    IF /\ VmRun(h, box).kind = "value"
       /\ "setTimeout" \in DOMAIN box
       /\ \E d \in DefAtoms :
              Includes(h.code, d) /\ DefName(d) = h.callName /\ DefKind(d) = "timer"
    THEN { [ kind |-> "setTimeout", delay |-> 60000 ] }
    ELSE { }

\* what the isolate's timeout throws (the text is the runtime's)
TimeoutMessages ==
    { << "Script execution ", "timed out", " after 15000ms" >>,
      << "Script execution ", "timeout" >> }

(***************************************************************************)
(* executeJavaScript                                                       *)
(***************************************************************************)
\* elapsed time handed back without rounding
Unrounded(us) == us

\* Math.round((endTime - startTime) * 100) / 100: the elapsed time rounded to
\* two decimals of a millisecond, written in microseconds (a multiple of 10)
RoundHundredths(us) == ((us + 5) \div 10) * 10

\* microseconds a stage may take
Elapse(stage) ==
    CASE stage = "validate" -> { 0, 23 }
      [] stage = "construct" -> { 1000 }
      [] stage = "run" -> { 500 }

Result(v, t) == [ kind |-> "result", result |-> v, message |-> << >>, executionTime |-> t ]
Failure(m, t) == [ kind |-> "failure", result |-> JsNull, message |-> m, executionTime |-> t ]

\* Object.assign(new Error(message), { executionTime })
Annotated(m, t) == [ message |-> m, isError |-> TRUE, annotated |-> TRUE, executionTime |-> t ]
\* an Error thrown as it is
Plain(m) == [ message |-> m, isError |-> TRUE, annotated |-> FALSE, executionTime |-> 0 ]

TimedOutMessage == << "Code execution timed out (max 5 seconds)" >>
RestrictedMessage == << "Code contains ", "restricted", " operations" >>
UnknownMessage == << "Unknown execution error occurred" >>
ExecutionErrorPrefix == "Execution error: "

\* an outer catch that wraps every Error it sees as a runtime error
ClassifyAllGeneric(e, fn, t) ==
    IF e.isError THEN Failure(<< ExecutionErrorPrefix >> \o e.message, t)
    ELSE Failure(UnknownMessage, t)

\* the outer catch: what is thrown to the caller for error e
Classify(e, fn, t) ==
    IF e.isError
    THEN IF e.annotated /\ e.executionTime # 0 THEN Failure(e.message, e.executionTime)
         ELSE IF Includes(e.message, "timeout") THEN Failure(TimedOutMessage, t)
         ELSE IF Includes(e.message, "not allowed") \/ Includes(e.message, "restricted")
         THEN Failure(RestrictedMessage, t)
         ELSE IF Includes(e.message, "not defined") \/ Includes(e.message, "not a function")
         THEN Failure(NotFoundMessage(fn), t)
         ELSE Failure(<< ExecutionErrorPrefix >> \o e.message, t)
    ELSE Failure(UnknownMessage, t)

Validate ==
    /\ pc = "validating"
    /\ LET bad == ValidationError(code, codeType, functionName)
       IN IF bad = << >>
          THEN /\ pc' = "normalizing"
               /\ UNCHANGED << now, pending >>
          ELSE \E d \in Elapse("validate") :
                  /\ now' = now + d
                  /\ pending' = << Annotated(bad[1], RoundHundredths(now + d)) >>
                  /\ pc' = "catch"
    /\ UNCHANGED << code, codeType, input, functionName, skipWrapper, config,
                    cleanedCode, normTwice, processedCode, vm, vmCreated,
                    wrappedCode, outcome >>
    /\ UNCHANGED << timers, httpVars, bridgeVars, restVars, pairVars >>

NormalizeCode ==
    /\ pc = "normalizing"
    /\ cleanedCode' = cleanupCode(code)
    /\ processedCode' = AutoAwait(cleanedCode')
    /\ pc' = "constructing"
    /\ UNCHANGED << code, codeType, input, functionName, skipWrapper, config, now,
                    normTwice, vm, vmCreated, wrappedCode, pending, outcome >>
    /\ UNCHANGED << timers, httpVars, bridgeVars, restVars, pairVars >>

Construct ==
    /\ pc = "constructing"
    /\ vm' = << NewVM >>
    /\ vmCreated' = vmCreated + 1
    /\ \E d \in Elapse("construct") : now' = now + d
    /\ pc' = "building"
    /\ UNCHANGED << code, codeType, input, functionName, skipWrapper, config,
                    cleanedCode, normTwice, processedCode, wrappedCode, pending,
                    outcome >>
    /\ UNCHANGED << timers, httpVars, bridgeVars, restVars, pairVars >>

BuildHarness ==
    /\ pc = "building"
    /\ IF JsonThrows(input)
       THEN /\ pending' = << Plain(<< "Converting circular structure to JSON" >>) >>
            /\ pc' = "catch"
            /\ UNCHANGED wrappedCode
       ELSE /\ wrappedCode' = << Harness(processedCode, functionName, input, skipWrapper) >>
            /\ pc' = "running"
            /\ UNCHANGED pending
    /\ UNCHANGED << code, codeType, input, functionName, skipWrapper, config, now,
                    cleanedCode, normTwice, processedCode, vm, vmCreated, outcome >>
    /\ UNCHANGED << timers, httpVars, bridgeVars, restVars, pairVars >>

\* result = await vm.run(wrappedCode), with its catch
Run ==
    /\ pc = "running"
    /\ LET r == VmRun(wrappedCode[1], vm[1].sandbox)
       IN CASE r.kind = "value" ->
                 \E d \in Elapse("run") :
                    /\ now' = now + d
                    /\ outcome' = << Result(r.value, RoundHundredths(now + d)) >>
                    /\ pc' = "done"
                    /\ UNCHANGED << vm, pending >>
            [] r.kind = "throw" ->
                 \E d \in Elapse("run") :
                    /\ now' = now + d
                    /\ vm' = << >>
                    /\ pending' = << Annotated(IF r.isError THEN r.message
                                               ELSE << "VM execution failed" >>,
                                               RoundHundredths(now + d)) >>
                    /\ pc' = "catch"
                    /\ UNCHANGED outcome
            [] r.kind = "timeout" ->
                 \E m \in TimeoutMessages :
                    /\ now' = now + vm[1].timeout * 1000
                    /\ vm' = << >>
                    /\ pending' = << Annotated(m, RoundHundredths(now + vm[1].timeout * 1000)) >>
                    /\ pc' = "catch"
                    /\ UNCHANGED outcome
            [] r.kind = "unsettled" ->
                 \* vm.run has returned the promise; the await never resumes
                 \E d \in Elapse("run") :
                    /\ now' = now + d
                    /\ pc' = "awaiting"
                    /\ UNCHANGED << vm, pending, outcome >>
    /\ timers' = timers \cup Scheduled(wrappedCode[1], vm[1].sandbox)
    /\ UNCHANGED << code, codeType, input, functionName, skipWrapper, config,
                    cleanedCode, normTwice, processedCode, vmCreated, wrappedCode >>
    /\ UNCHANGED << httpVars, bridgeVars, restVars, pairVars >>

\* catch (error) { ... } of the whole body
OuterCatch ==
    /\ pc = "catch"
    /\ vm' = << >>
    /\ outcome' = << Classify(pending[1], functionName, RoundHundredths(now)) >>
    /\ pending' = << >>
    /\ pc' = "done"
    /\ UNCHANGED << code, codeType, input, functionName, skipWrapper, config, now,
                    cleanedCode, normTwice, processedCode, vmCreated, wrappedCode >>
    /\ UNCHANGED << timers, httpVars, bridgeVars, restVars, pairVars >>

Next == Validate \/ NormalizeCode \/ Construct \/ BuildHarness \/ Run \/ OuterCatch

(***************************************************************************)
(* The requests: a body of at most one definition, then at most MaxExports *)
(* export statements, each with or without its semicolon (two of the five  *)
(* shapes are tried alone only).  A request with no export statement is    *)
(* tried under every configuration and with the names and the code that    *)
(* validation rejects, and under the default configuration with the        *)
(* argument lists that have no JSON text.                                  *)
(***************************************************************************)
MaxExports == 2

Terminated(shapes) == { << " " >> \o e \o t : e \in shapes, t \in { << >>, << ";" >> } }

\* the statements that are tried in sequences
SequencedStatements ==
    Terminated({ << "export", " ", "default", " ", "f" >>,
                 << "export", " ", "{", " ", "f", " ", "as", " ", "default", " ", "}" >>,
                 << "module", ".", "exports", " ", "=", " ", "f" >> })

\* the statements that are tried alone
SingleStatements ==
    Terminated({ << "export", " ", "{", " ", "f", ",", " ", "g", " ", "}" >>,
                 << "export", " ", "*", " ", "from", " ", "'", "g", "'" >> })

ExportStatements == SequencedStatements \cup SingleStatements

Tails == Concats(SequencedStatements, MaxExports) \cup SingleStatements

Bodies == { << >> } \cup { << d >> : d \in DefAtoms \ { DefSys } }

\* the bodies that are also tried with export statements after them
TailedBodies == Bodies \ { << DefBoom >>, << DefToss >>, << DefLater >> }

Inputs == { << Num(5), Num(10) >>, << Num(15), Num(25) >> }

\* argument lists that are not JSON-representable
OddInputs == { << Fn, Num(10) >>, << Sym, Num(10) >>, << Circular, Num(10) >> }

Configs ==
    [ timeout : { 5000, 10000 }, allowHttp : BOOLEAN, allowConsole : BOOLEAN,
      allowTimers : BOOLEAN ]

NamesIn(b) == { << "missing" >> } \cup { DefName(b[i]) : i \in DOMAIN b }

InvalidNames == { << >>, << "1", "add" >> }

Init ==
    /\ \E b \in Bodies :
         \E t \in IF b \in TailedBodies THEN Tails ELSE { << >> } :
          /\ code = b \o t
          /\ functionName \in IF t = << >> THEN NamesIn(b) \cup InvalidNames ELSE NamesIn(b)
          /\ config \in IF t = << >> THEN Configs ELSE { DefaultConfig }
    /\ codeType \in IF code = << >> THEN { "string", "undefined" } ELSE { "string" }
    /\ input \in IF config = DefaultConfig /\ ~Includes(code, " ")
                  THEN Inputs \cup OddInputs ELSE Inputs
    /\ skipWrapper \in BOOLEAN
    /\ pc = "validating"
    /\ now = 0
    /\ cleanedCode = << >>
    /\ normTwice = << >>
    /\ processedCode = << >>
    /\ vm = << >>
    /\ vmCreated = 0
    /\ wrappedCode = << >>
    /\ pending = << >>
    /\ outcome = << >>
    /\ timers = { }
    /\ NoHttp /\ NoBridge /\ NoRest /\ NoPair

Spec == Init /\ [][Next]_vars

\* The calls under the default configuration whose code has no export
\* statement, with the event loop running every step that can be taken.
FairInit == Init /\ config = DefaultConfig /\ ~Includes(code, " ")

FairSpec == FairInit /\ [][Next]_vars /\ WF_vars(Next)

(***************************************************************************)
(* POST /execute (routes/execute.ts, handleExecute).  Headers are sets of   *)
(* << name, value >> pairs.  The handler's fetch of an IAM token is left   *)
(* out: its outcome is only logged.                                        *)
(***************************************************************************)
ContentType == << "Content-Type", << "application/json" >> >>
AllowOrigin == << "Access-Control-Allow-Origin", << "*" >> >>

\* `${executionTime}`: a number of milliseconds with at most two decimals,
\* written as JavaScript writes a number (no trailing zeros)
FormatMs(us) ==
    LET whole == us \div 1000
        cents == (us % 1000) \div 10
    IN IF cents = 0 THEN << ToString(whole) >>
       ELSE IF cents % 10 = 0 THEN << ToString(whole), ".", ToString(cents \div 10) >>
       ELSE << ToString(whole), ".", ToString(cents \div 10), ToString(cents % 10) >>

ExecutionTimeHeader(us) == << "X-Execution-Time", FormatMs(us) \o << "ms" >> >>

HeaderNames(r) == { h[1] : h \in r.headers }

\* JSON.stringify(result)
JsonOf(x) ==
    CASE x.t = "num" -> ToString(x.v)
      [] x.t = "response" -> "{}"
      [] x.t = "string" -> "\"[object Object]...\""
      [] OTHER -> "null"

ErrorResponse(st, m, hs) == [ status |-> st, error |-> m, body |-> "", headers |-> hs ]

InvalidJson == << "Invalid JSON in request body" >>
InputRequired == << "Input must be an array" >>
InternalError == << "Internal server error" >>

\* what the request body holds: text that is not JSON, the JSON null, or an
\* object whose three fields are in code/codeType, input/inputType,
\* functionName/nameType
HttpBodies ==
    { [ body |-> "malformed", inputType |-> "undefined", nameType |-> "undefined" ],
      [ body |-> "null", inputType |-> "undefined", nameType |-> "undefined" ] }
    \cup [ body : { "object" }, inputType : { "array", "object", "undefined" },
           nameType : { "string", "undefined" } ]

HttpInit ==
    /\ http \in { << b >> : b \in HttpBodies }
    /\ response = << >>
    /\ codeType \in IF http[1].body = "object" THEN { "string", "number", "undefined" }
                    ELSE { "undefined" }
    /\ code \in IF codeType = "string" THEN Bodies ELSE { << >> }
    /\ input \in IF http[1].inputType = "array" THEN Inputs ELSE { << >> }
    /\ functionName \in IF http[1].nameType = "string"
                        THEN NamesIn(code) \cup InvalidNames ELSE { << >> }
    /\ skipWrapper = FALSE
    /\ config = DefaultConfig
    /\ pc = "received"
    /\ now = 0
    /\ cleanedCode = << >>
    /\ normTwice = << >>
    /\ processedCode = << >>
    /\ vm = << >>
    /\ vmCreated = 0
    /\ wrappedCode = << >>
    /\ pending = << >>
    /\ outcome = << >>
    /\ timers = { }
    /\ sys = NoSys
    /\ NoBridge /\ NoRest /\ NoPair

\* handleExecute up to the call of executeJavaScript
HandleExecute ==
    /\ pc = "received"
    /\ LET b == http[1]
           reply(r) == response' = << r >> /\ pc' = "responded"
       IN CASE b.body = "malformed" ->
                 reply(ErrorResponse(400, InvalidJson, { ContentType }))
            [] b.body = "null" ->
                 \* const { code, input, functionName } = body throws a TypeError
                 reply(ErrorResponse(500, InternalError, { ContentType, AllowOrigin }))
            [] b.body = "object" /\ (codeType # "string" \/ code = << >>) ->
                 reply(ErrorResponse(400, CodeRequired, { ContentType }))
            [] b.body = "object" /\ codeType = "string" /\ code # << >>
               /\ b.inputType # "array" ->
                 reply(ErrorResponse(400, InputRequired, { ContentType }))
            [] b.body = "object" /\ codeType = "string" /\ code # << >>
               /\ b.inputType = "array"
               /\ (b.nameType # "string" \/ functionName = << >>) ->
                 reply(ErrorResponse(400, NameRequired, { ContentType }))
            [] OTHER ->
                 pc' = "validating" /\ UNCHANGED response
    /\ UNCHANGED << code, codeType, input, functionName, skipWrapper, config, now,
                    cleanedCode, normTwice, processedCode, vm, vmCreated, wrappedCode,
                    pending, outcome, timers, http, sys, bridgeVars, restVars, pairVars >>

\* handleExecute from the return (or the throw) of executeJavaScript on
HandleRespond ==
    /\ pc = "done"
    /\ http # << >>
    /\ response' =
          << IF outcome[1].kind = "result"
             THEN [ status |-> 200, error |-> << >>, body |-> JsonOf(outcome[1].result),
                    headers |-> { ContentType, AllowOrigin,
                                  ExecutionTimeHeader(outcome[1].executionTime) } ]
             ELSE ErrorResponse(500, outcome[1].message,
                                { ContentType, AllowOrigin,
                                  ExecutionTimeHeader(outcome[1].executionTime) }) >>
    /\ pc' = "responded"
    /\ UNCHANGED << code, codeType, input, functionName, skipWrapper, config, now,
                    cleanedCode, normTwice, processedCode, vm, vmCreated, wrappedCode,
                    pending, outcome, timers, http, sys, bridgeVars, restVars, pairVars >>

HttpNext == HandleExecute \/ Next \/ HandleRespond

SpecHttp == HttpInit /\ [][HttpNext]_vars

(***************************************************************************)
(* SyncResponse (utils/java-bridge.ts): a handle on a promise of a string  *)
(* whose coercion to a string busy-waits for the promise.  JavaScript runs *)
(* one thing at a time: the promise settles, and the callbacks the         *)
(* constructor registered run, only while no coercion is in progress.      *)
(***************************************************************************)
\* the iterations of the polling loop (maxAttempts, 120000 in the source)
MaxAttempts == 3
\* the coercions of one handle that are followed
MaxCoercions == 3

Coercions == { "toString", "valueOf", "toPrimitive" }

ResponseText == "body"
HttpError == << "HTTP 500" >>

\* a polling loop with no ceiling
PollsUntilResolved(resolved, attempts) == ~resolved

\* while (!this.resolved && attempts < maxAttempts)
KeepsPolling(resolved, attempts) == ~resolved /\ attempts < MaxAttempts

BridgeInit ==
    /\ handle \in [ promise : { "pending" }, fate : { "never", "value", "error" },
                     resolved : { FALSE }, result : { "" }, error : { << >> } ]
    /\ poll = [ pc |-> "idle", attempts |-> 0, via |-> "toString", began |-> "pending" ]
    /\ coerced = << >>
    /\ config = DefaultConfig
    /\ NoExecution /\ NoHttp /\ NoRest /\ NoPair

BridgeFrame == UNCHANGED << execVars, httpVars, restVars, pairVars >>

\* the underlying host call completes; this is the host's work and can happen
\* while the isolate's thread is in the polling loop
Settle ==
    /\ handle.promise = "pending"
    /\ handle.fate # "never"
    /\ handle' = [ handle EXCEPT !.promise = IF handle.fate = "value" THEN "fulfilled"
                                              ELSE "rejected" ]
    /\ UNCHANGED << poll, coerced >>
    /\ BridgeFrame

\* the .then / .catch callback of the constructor: a job of the event loop,
\* which runs only when no synchronous code is running
RunCallback ==
    /\ poll.pc = "idle"
    /\ handle.promise # "pending"
    /\ ~handle.resolved
    /\ handle' = IF handle.promise = "fulfilled"
                 THEN [ handle EXCEPT !.result = ResponseText, !.resolved = TRUE ]
                 ELSE [ handle EXCEPT !.error = << HttpError >>, !.resolved = TRUE ]
    /\ UNCHANGED << poll, coerced >>
    /\ BridgeFrame

\* toString(), or valueOf() or [Symbol.toPrimitive](), which call it
Coerce ==
    /\ poll.pc = "idle"
    /\ Len(coerced) < MaxCoercions
    /\ \E via \in Coercions :
          poll' = [ pc |-> "polling", attempts |-> 0, via |-> via, began |-> handle.promise ]
    /\ UNCHANGED << handle, coerced >>
    /\ BridgeFrame

\* one turn of the while loop (the count is followed one past MaxAttempts)
Poll ==
    /\ poll.pc = "polling"
    /\ KeepsPolling(handle.resolved, poll.attempts)
    /\ poll' = [ poll EXCEPT !.attempts = IF poll.attempts <= MaxAttempts
                                          THEN poll.attempts + 1 ELSE poll.attempts ]
    /\ UNCHANGED << handle, coerced >>
    /\ BridgeFrame

\* after the loop: return '', throw this.error, or return this.result
Return ==
    /\ poll.pc = "polling"
    /\ ~KeepsPolling(handle.resolved, poll.attempts)
    /\ coerced' = Append(coerced,
          IF ~handle.resolved
          THEN [ via |-> poll.via, kind |-> "returned", value |-> << "" >>,
                 polls |-> poll.attempts ]
          ELSE IF handle.error # << >>
          THEN [ via |-> poll.via, kind |-> "threw", value |-> handle.error[1],
                 polls |-> poll.attempts ]
          ELSE [ via |-> poll.via, kind |-> "returned", value |-> << handle.result >>,
                 polls |-> poll.attempts ])
    /\ poll' = [ poll EXCEPT !.pc = "idle" ]
    /\ UNCHANGED handle
    /\ BridgeFrame

BridgeNext == Settle \/ RunCallback \/ Coerce \/ Poll \/ Return

SpecBridge == BridgeInit /\ [][BridgeNext]_vars

\* a coercion is synchronous code: once begun it runs on
FairBridge == SpecBridge /\ WF_vars(Poll) /\ WF_vars(Return)

(***************************************************************************)
(* RestClient (utils/java-bridge.ts): call -> makeHttpCall, with the       *)
(* bearer token of getAccessToken.  A text is a sequence, '' is << >>.     *)
(***************************************************************************)
TokenException == << "error while getting new token" >>
FetchFailed == << "fetch failed" >>
HttpFailed == << "HTTP 500: Internal Server Error - " >>

\* getIAMToken(): the token with its "Bearer " prefix, or a TokenException
getIAMToken(fate) ==
    IF fate = "token" THEN [ kind |-> "returned", value |-> BearerToken ]
    ELSE [ kind |-> "threw", value |-> TokenException ]

\* getAccessToken with no catch around getIAMToken
AccessTokenUncaught(fate) == getIAMToken(fate)

\* getAccessToken: '' when getIAMToken throws
getAccessToken(fate) ==
    IF getIAMToken(fate).kind = "threw" THEN [ kind |-> "returned", value |-> << >> ]
    ELSE getIAMToken(fate)

\* String.prototype.toUpperCase on a method name
ToUpperCase(m) ==
    CASE m = "get" -> "GET"
      [] m = "post" -> "POST"
      [] OTHER -> m

\* { ...a, ...b }: the headers of b replace those of a that have the same name
Merge(a, b) == { h \in a : \A g \in b : g[1] # h[1] } \cup b

Authorizations(hs) == { h \in hs : h[1] = "Authorization" }

RestCalls ==
    [ method : { "GET", "post", "PUT", "DELETE" },
      headers : { { }, { << "Authorization", << "Basic own" >> >> },
                  { << "x-jiffy-tenant-id", << "t1" >> >> } },
      body : { << >>, << "payload" >> } ]

RestClientClass == "ai.jiffy.apex.utils.RestClient"
ClassNames == { RestClientClass, "java.util.HashMap" }

RestEnvs == [ iam : { "token", "throws" }, net : { "ok", "http_error", "network_error" } ]

RestInit ==
    /\ restCall \in RestCalls
    /\ restEnv \in RestEnvs
    /\ restPc = "type"
    /\ jwtToken = << >>
    /\ fetchOptions = << >>
    /\ sent = << >>
    /\ restOutcome = << >>
    /\ \E c \in ClassNames : client = [ NoClient EXCEPT !.className = c ]
    /\ config = DefaultConfig
    /\ NoExecution /\ NoHttp /\ NoBridge /\ NoPair

RestFrame == UNCHANGED << restCall, restEnv, execVars, httpVars, bridgeVars, pairVars >>

\* JavaBridge.type(className): the class for the one known name, else a
\* class with no members
JavaType(className) ==
    IF className = RestClientClass THEN "RestClient" ELSE "UnknownClass"

\* String(v) of what call() returned
ToText(v) ==
    CASE v = "Promise" -> "[object Promise]"
      [] v = "SyncResponse" -> ResponseText

\* var RestClient = Java.type(className)
TypeLookup ==
    /\ restPc = "type"
    /\ client' = [ client EXCEPT !.type = << JavaType(client.className) >> ]
    /\ restPc' = IF JavaType(client.className) = "RestClient" THEN "start" ELSE "inert"
    /\ UNCHANGED << jwtToken, fetchOptions, sent, restOutcome >>
    /\ RestFrame

\* the script turns what call() returned into a string
CoerceReturned ==
    /\ client.returned # << >>
    /\ client.text = << >>
    /\ client' = [ client EXCEPT !.text = << ToText(client.returned[1]) >> ]
    /\ UNCHANGED << restPc, jwtToken, fetchOptions, sent, restOutcome >>
    /\ RestFrame

\* call() runs makeHttpCall up to its first await and returns its promise;
\* const fetchOptions = { method, headers: { 'Content-Type', ...headers } }
PrepareOptions ==
    /\ restPc = "start"
    /\ fetchOptions' = << [ method |-> ToUpperCase(restCall.method),
                            headers |-> Merge({ ContentType }, restCall.headers),
                            body |-> << >> ] >>
    /\ restPc' = "token"
    /\ client' = [ client EXCEPT !.returned = << "Promise" >> ]
    /\ UNCHANGED << jwtToken, sent, restOutcome >>
    /\ RestFrame

\* const jwtToken = await this.getAccessToken()
FetchToken ==
    /\ restPc = "token"
    /\ LET t == getAccessToken(restEnv.iam)
       IN IF t.kind = "threw"
          THEN /\ restOutcome' = << t >>
               /\ restPc' = "done"
               /\ UNCHANGED jwtToken
          ELSE /\ jwtToken' = << t.value >>
               /\ restPc' = "authorize"
               /\ UNCHANGED restOutcome
    /\ UNCHANGED << fetchOptions, sent, client >>
    /\ RestFrame

\* if (jwtToken && jwtToken.length > 0) headers = { ...headers, Authorization }
AddAuthorization ==
    /\ restPc = "authorize"
    /\ fetchOptions' =
          IF jwtToken[1] # << >>
          THEN << [ fetchOptions[1] EXCEPT
                      !.headers = Merge(@, { << "Authorization", jwtToken[1] >> }) ] >>
          ELSE fetchOptions
    /\ restPc' = "body"
    /\ UNCHANGED << jwtToken, sent, restOutcome, client >>
    /\ RestFrame

\* if (body && !['GET', 'DELETE'].includes(method.toUpperCase())) options.body = body
AddBody ==
    /\ restPc = "body"
    /\ fetchOptions' =
          IF restCall.body # << >> /\ ToUpperCase(restCall.method) \notin { "GET", "DELETE" }
          THEN << [ fetchOptions[1] EXCEPT !.body = restCall.body ] >>
          ELSE fetchOptions
    /\ restPc' = "fetch"
    /\ UNCHANGED << jwtToken, sent, restOutcome, client >>
    /\ RestFrame

\* const response = await fetch(url, fetchOptions)
Fetch ==
    /\ restPc = "fetch"
    /\ sent' = Append(sent, fetchOptions[1])
    /\ IF restEnv.net = "network_error"
       THEN /\ restOutcome' = << [ kind |-> "threw", value |-> FetchFailed ] >>
            /\ restPc' = "done"
       ELSE /\ restPc' = "response"
            /\ UNCHANGED restOutcome
    /\ UNCHANGED << jwtToken, fetchOptions, client >>
    /\ RestFrame

\* the response body, or an Error when the status is not ok
ReadResponse ==
    /\ restPc = "response"
    /\ restOutcome' =
          << IF restEnv.net = "ok" THEN [ kind |-> "returned", value |-> << ResponseText >> ]
             ELSE [ kind |-> "threw", value |-> HttpFailed ] >>
    /\ restPc' = "done"
    /\ UNCHANGED << jwtToken, fetchOptions, sent, client >>
    /\ RestFrame

RestNext ==
    \/ TypeLookup \/ CoerceReturned
    \/ PrepareOptions \/ FetchToken \/ AddAuthorization \/ AddBody \/ Fetch \/ ReadResponse

SpecRest == RestInit /\ [][RestNext]_vars

(***************************************************************************)
(* POST /execute-with-sys: handleExecuteWithSys.                           *)
(***************************************************************************)
\* generateSystemVariable(jiffyHeaders, iamToken)
generateSystemVariable(tenant, iamToken) ==
    [ appHost |-> AppHost,
      tenantId |-> IF tenant = << >> THEN "" ELSE tenant[1],
      authorization |-> IF iamToken = << >> THEN "Bearer" ELSE iamToken[1] ]

\* the object value that stands for a system variable
ObjectOf(sv) == Obj(CHOOSE i \in DOMAIN SystemVariables : SystemVariables[i] = sv)

SysBodies == { << >>, << DefSys >>, << DefAdd >>, << DefResult >> }

SysInit ==
    /\ http \in { << b >> : b \in HttpBodies }
    /\ response = << >>
    /\ codeType \in IF http[1].body = "object" THEN { "string", "number", "undefined" }
                    ELSE { "undefined" }
    /\ code \in IF codeType = "string" THEN SysBodies ELSE { << >> }
    /\ input \in IF http[1].inputType = "array" THEN Inputs \cup { << >> } ELSE { << >> }
    /\ functionName \in IF http[1].nameType = "string"
                        THEN NamesIn(code) \cup InvalidNames ELSE { << >> }
    /\ \E t \in { << >>, << "t1" >> }, f \in { "token", "throws" } :
          sys = [ NoSys EXCEPT !.tenant = t, !.iam = f, !.original = input ]
    /\ skipWrapper = FALSE
    /\ config = DefaultConfig
    /\ pc = "received"
    /\ now = 0
    /\ cleanedCode = << >>
    /\ normTwice = << >>
    /\ processedCode = << >>
    /\ vm = << >>
    /\ vmCreated = 0
    /\ wrappedCode = << >>
    /\ pending = << >>
    /\ outcome = << >>
    /\ timers = { }
    /\ NoBridge /\ NoRest /\ NoPair

SysFrame ==
    UNCHANGED << code, codeType, functionName, skipWrapper, config, now, cleanedCode,
                 normTwice, processedCode, vm, vmCreated, wrappedCode, pending, outcome,
                 timers, http, bridgeVars, restVars, pairVars >>

\* handleExecuteWithSys up to the token fetch
HandleExecuteWithSys ==
    /\ pc = "received"
    /\ LET b == http[1]
           reply(r) == response' = << r >> /\ pc' = "responded"
       IN CASE b.body = "malformed" ->
                 reply(ErrorResponse(400, InvalidJson, { ContentType }))
            [] b.body = "null" ->
                 reply(ErrorResponse(500, InternalError, { ContentType, AllowOrigin }))
            [] b.body = "object" /\ (codeType # "string" \/ code = << >>) ->
                 reply(ErrorResponse(400, CodeRequired, { ContentType }))
            [] b.body = "object" /\ codeType = "string" /\ code # << >>
               /\ b.inputType # "array" ->
                 reply(ErrorResponse(400, InputRequired, { ContentType }))
            [] b.body = "object" /\ codeType = "string" /\ code # << >>
               /\ b.inputType = "array"
               /\ (b.nameType # "string" \/ functionName = << >>) ->
                 reply(ErrorResponse(400, NameRequired, { ContentType }))
            [] OTHER ->
                 pc' = "token" /\ UNCHANGED response
    /\ UNCHANGED << input, sys >>
    /\ SysFrame

\* try { iamToken = await getIAMToken(...) } catch { /* continue */ }
SysFetchToken ==
    /\ pc = "token"
    /\ sys' = [ sys EXCEPT !.iamToken = IF getIAMToken(sys.iam).kind = "returned"
                                          THEN getIAMToken(sys.iam).value ELSE << >> ]
    /\ pc' = "inject"
    /\ UNCHANGED << input, response >>
    /\ SysFrame

\* const modifiedInput = [systemVariable, ...input], handed to executeJavaScript
InjectSystemVariable ==
    /\ pc = "inject"
    /\ LET sv == ObjectOf(generateSystemVariable(sys.tenant, sys.iamToken))
       IN /\ sys' = [ sys EXCEPT !.variable = << sv >> ]
          /\ input' = << sv >> \o input
    /\ pc' = "validating"
    /\ UNCHANGED response
    /\ SysFrame

\* handleExecuteWithSys from the return (or the throw) of executeJavaScript on
SysRespond ==
    /\ pc = "done"
    /\ sys.variable # << >>
    /\ response' =
          << IF outcome[1].kind = "result"
             THEN [ status |-> 200, error |-> << >>, body |-> JsonOf(outcome[1].result),
                    headers |-> { ContentType, AllowOrigin,
                                  ExecutionTimeHeader(outcome[1].executionTime) } ]
             ELSE ErrorResponse(500, outcome[1].message,
                                { ContentType, AllowOrigin,
                                  ExecutionTimeHeader(outcome[1].executionTime) }) >>
    /\ pc' = "responded"
    /\ UNCHANGED << input, sys >>
    /\ SysFrame

SysNext ==
    HandleExecuteWithSys \/ SysFetchToken \/ InjectSystemVariable \/ Next \/ SysRespond

SpecSys == SysInit /\ [][SysNext]_vars

(***************************************************************************)
(* Concurrent calls of executeJavaScript.  Each call has its own locals    *)
(* (vm, wrappedCode); the isolates are the objects new VM() has made.  The *)
(* calls interleave between any two steps, which is more than the event    *)
(* loop allows (it switches only at an await).  Times are left out.        *)
(***************************************************************************)
MaxCalls == 2

CallIds == 1..MaxCalls

PairRequests ==
    { [ code |-> << DefAdd >>, functionName |-> << "add" >> ],
      [ code |-> << >>, functionName |-> << "add" >> ],
      [ code |-> << DefBoom >>, functionName |-> << "boom" >> ] }

\* one vm variable of the module, which holds the isolate made last
LatestIsolate(c) == Len(isolates)

\* the isolate a call runs its harness in: the one its local vm refers to
IsolateOf(c) == calls[c].vm[1]

PairInit ==
    /\ calls \in [ CallIds -> { [ code |-> r.code, functionName |-> r.functionName,
                                   input |-> i, pc |-> "validating", vm |-> << >>,
                                   wrappedCode |-> << >>, outcome |-> << >> ] :
                                 r \in PairRequests, i \in Inputs } ]
    /\ isolates = << >>
    /\ config = DefaultConfig
    /\ NoExecution /\ NoHttp /\ NoBridge /\ NoRest

PairFrame == UNCHANGED << execVars, httpVars, bridgeVars, restVars >>

\* validateCode(code); validateFunctionName(functionName)
PairValidate(c) ==
    /\ calls[c].pc = "validating"
    /\ LET bad == ValidationError(calls[c].code, "string", calls[c].functionName)
       IN calls' = [ calls EXCEPT ![c] =
             IF bad = << >> THEN [ @ EXCEPT !.pc = "constructing" ]
             ELSE [ @ EXCEPT !.pc = "done",
                             !.outcome = << [ kind |-> "failure", result |-> JsNull,
                                              message |-> bad[1] ] >> ] ]
    /\ UNCHANGED isolates
    /\ PairFrame

\* vm = new VM({...})
PairConstruct(c) ==
    /\ calls[c].pc = "constructing"
    /\ isolates' = Append(isolates, [ owner |-> c, options |-> NewVM, ran |-> { } ])
    /\ calls' = [ calls EXCEPT ![c] = [ @ EXCEPT !.vm = << Len(isolates) + 1 >>,
                                                   !.pc = "building" ] ]
    /\ PairFrame

\* wrappedCode = `...`
PairBuild(c) ==
    /\ calls[c].pc = "building"
    /\ calls' = [ calls EXCEPT ![c] =
          [ @ EXCEPT !.wrappedCode = << Harness(AutoAwait(cleanupCode(calls[c].code)),
                                                calls[c].functionName, calls[c].input,
                                                FALSE) >>,
                     !.pc = "running" ] ]
    /\ UNCHANGED isolates
    /\ PairFrame

\* result = await vm.run(wrappedCode), and what the call hands back
PairRun(c) ==
    /\ calls[c].pc = "running"
    /\ LET i == IsolateOf(c)
           r == VmRun(calls[c].wrappedCode[1], isolates[i].options.sandbox)
       IN /\ isolates' = [ isolates EXCEPT ![i].ran = @ \cup { c } ]
          /\ calls' = [ calls EXCEPT ![c] =
                IF r.kind = "value"
                THEN [ @ EXCEPT !.pc = "done",
                                !.outcome = << [ kind |-> "result", result |-> r.value,
                                                 message |-> << >> ] >> ]
                ELSE [ @ EXCEPT !.pc = "done", !.vm = << >>,
                                !.outcome = << [ kind |-> "failure", result |-> JsNull,
                                                 message |-> r.message ] >> ] ]
    /\ PairFrame

PairNext ==
    \E c \in CallIds : PairValidate(c) \/ PairConstruct(c) \/ PairBuild(c) \/ PairRun(c)

SpecPair == PairInit /\ [][PairNext]_vars

IsPrefix(a, b) == Len(a) <= Len(b) /\ SubSeq(b, 1, Len(a)) = a

\* t is one export statement of a recognized shape (white space may lead it)
IsExportStatement(t) ==
    \E k \in 1..Len(endExportPatterns) : MatchFrom(endExportPatterns[k], t, 1, 1)

(***************************************************************************)
(* C2: cleanupCode is idempotent: normalizing normalized code changes      *)
(* nothing, cleanupCode(cleanupCode(code)) = cleanupCode(code).            *)
(***************************************************************************)
C2_Idempotent == pc = "norm_twice" => normTwice = cleanedCode

(***************************************************************************)
(* C3: cleanupCode only removes text from the end: its result is a prefix  *)
(* of the trimmed input, so export-shaped text before the tail stays.      *)
(***************************************************************************)
C3_OnlyTailRemoved ==
    pc \in {"norm_once", "norm_twice"} => IsPrefix(cleanedCode, Trim(code))

\* the tail was stripped while an export statement inside a string, before the
\* tail, was kept
C3_Witness ==
    /\ pc = "norm_once"
    /\ cleanedCode # Trim(code)
    /\ \E i, j, k \in 1..Len(cleanedCode) :
          /\ i < j /\ j < k
          /\ cleanedCode[i] = "'" /\ cleanedCode[j] = "export" /\ cleanedCode[k] = "'"

(***************************************************************************)
(* C4: when the code ends with two export statements of recognized shapes, *)
(* each terminated by a semicolon, cleanupCode removes both: nothing from  *)
(* the first of them on is left.                                           *)
(***************************************************************************)
C4_RemovesAllExports ==
    pc = "norm_once" =>
        \A i, j \in 1..Len(code) :
            ( /\ i < j /\ j < Len(code)
              /\ code[j] = ";" /\ code[Len(code)] = ";"
              /\ IsExportStatement(SubSeq(code, i, j - 1))
              /\ IsExportStatement(SubSeq(code, j + 1, Len(code) - 1)) )
            => Len(cleanedCode) < i

(***************************************************************************)
(* Executor claims.                                                        *)
(***************************************************************************)
\* the request passes validation and its arguments are JSON-representable
WellFormed ==
    /\ ValidationError(code, codeType, functionName) = << >>
    /\ \A i \in DOMAIN input : input[i].t = "num"

\* the code defines functionName as a pure synchronous function
DefinesPure ==
    \E d \in DefAtoms : Includes(code, d) /\ DefName(d) = functionName /\ DefKind(d) = "pure"

(***************************************************************************)
(* C1: for every well-formed request whose code defines functionName as a  *)
(* pure synchronous function, executeJavaScript returns as result the      *)
(* value of calling that function directly with the arguments.             *)
(***************************************************************************)
C1_ReturnsDirectCallValue ==
    (pc = "done" /\ WellFormed /\ DefinesPure)
        => outcome[1].kind = "result" /\ outcome[1].result = Sum(input)

\* what running code c (in place of the request's code) would hand back:
\* the value returned, or the message of the failure
RunOf(c) == VmRun(Harness(AutoAwait(cleanupCode(c)), functionName, input, skipWrapper), Sandbox)

(***************************************************************************)
(* C5: executing code that ends with one trailing export statement of a    *)
(* recognized shape gives the same result (the same value, or the same     *)
(* failure) as executing the code before that statement.                   *)
(***************************************************************************)
C5_TrailingExportChangesNothing ==
    \A b \in Bodies \ { << >> }, e \in ExportStatements :
        (pc = "done" /\ WellFormed /\ code = b \o e) =>
            CASE RunOf(b).kind = "value" ->
                    outcome[1].kind = "result" /\ outcome[1].result = RunOf(b).value
              [] RunOf(b).kind = "throw" ->
                    /\ outcome[1].kind = "failure"
                    /\ outcome[1].message = IF RunOf(b).isError THEN RunOf(b).message
                                             ELSE << "VM execution failed" >>
              [] RunOf(b).kind = "timeout" ->
                    outcome[1].kind = "failure" /\ outcome[1].message \in TimeoutMessages

\* main with `export { main as default };` and [15, 25] gives 40
C5_Witness ==
    /\ pc = "done"
    /\ code = << DefAdd, " ", "export", " ", "{", " ", "f", " ", "as", " ", "default",
                 " ", "}", ";" >>
    /\ functionName = << "add" >>
    /\ input = << Num(15), Num(25) >>
    /\ outcome[1].kind = "result"
    /\ outcome[1].result = Num(40)

\* the submitted code was evaluated (it parsed and its statements ran) and
\* functionName does not resolve to a callable
GuardTrips ==
    /\ wrappedCode # << >>
    /\ \A i \in DOMAIN processedCode : processedCode[i] \in DefAtoms \cup Space \cup { ";" }
    /\ << "__result__" >> \notin Declared(processedCode)
    /\ functionName \notin Declared(processedCode)

RunTimedOut ==
    wrappedCode # << >> /\ VmRun(wrappedCode[1], Sandbox).kind = "timeout"

(***************************************************************************)
(* C7: when the isolate's timeout interrupts a run, executeJavaScript      *)
(* fails with the message 'Code execution timed out (max 5 seconds)'.      *)
(***************************************************************************)
C7_TimeoutOutcome ==
    (pc = "done" /\ RunTimedOut) =>
        outcome[1].kind = "failure" /\ outcome[1].message = TimedOutMessage

(***************************************************************************)
(* C8: the wall-clock limit of every isolate is the configured             *)
(* execution.timeout, and a busy-looping function is interrupted no later  *)
(* than that budget (times are in microseconds).                           *)
(***************************************************************************)
C8_TimeoutFromConfig ==
    /\ vm # << >> => vm[1].timeout = config.timeout
    /\ (pc = "done" /\ RunTimedOut) => outcome[1].executionTime <= config.timeout * 1000 + 1000

(***************************************************************************)
(* C9: with allowHttp=false the isolate has no network binding, with       *)
(* allowConsole=false no console, with allowTimers=false no timers.        *)
(***************************************************************************)
C9_CapabilityToggles ==
    vm # << >> =>
        /\ ~config.allowHttp => { "fetch", "XMLHttpRequest" } \cap DOMAIN vm[1].sandbox = { }
        /\ ~config.allowConsole => "console" \notin DOMAIN vm[1].sandbox
        /\ ~config.allowTimers =>
              { "setTimeout", "clearTimeout", "setInterval", "clearInterval" }
                  \cap DOMAIN vm[1].sandbox = { }

(***************************************************************************)
(* C10: every isolate is given the same fixed set of globals, whatever the *)
(* request; none is a filesystem, process-control or module-loading        *)
(* capability; process has only env.NODE_ENV and nextTick; document is     *)
(* bound, to undefined.                                                    *)
(***************************************************************************)
C10_FixedSandbox ==
    vm # << >> =>
        /\ DOMAIN vm[1].sandbox =
              { "fetch", "XMLHttpRequest", "console", "setTimeout", "clearTimeout",
                "setInterval", "clearInterval", "Promise", "URL", "URLSearchParams",
                "Java", "RestClient", "global", "document", "process" }
        /\ DOMAIN vm[1].sandbox
              \cap { "require", "module", "fs", "child_process", "import", "Bun", "eval" } = { }
        /\ DOMAIN vm[1].sandbox.process = { "env", "nextTick" }
        /\ vm[1].sandbox.process.env = { "NODE_ENV" }
        /\ vm[1].sandbox.document = "undefined"

\* an isolate built for a request with the wrapper skipped and export statements
C10_Witness ==
    /\ vm # << >>
    /\ skipWrapper
    /\ functionName = << "net" >>
    /\ input # << >>
    /\ "document" \in DOMAIN vm[1].sandbox

(***************************************************************************)
(* C11: every outcome of executeJavaScript, a returned result or a thrown  *)
(* failure of any stage, carries an executionTime that is a non-negative   *)
(* number rounded to two decimals of a millisecond (in microseconds: a     *)
(* multiple of 10).                                                        *)
(***************************************************************************)
C11_ExecutionTimeRounded ==
    pc = "done" =>
        /\ outcome[1].executionTime \in Nat
        /\ outcome[1].executionTime % 10 = 0

\* a validation failure after 23 microseconds reports 0.02 ms
C11_Witness ==
    /\ pc = "done"
    /\ outcome[1].kind = "failure"
    /\ vmCreated = 0
    /\ now = 23
    /\ outcome[1].executionTime = 20

(***************************************************************************)
(* C13: a request whose code is empty or not a string, or whose            *)
(* functionName is empty or not an identifier, fails with the validation   *)
(* message, and no isolate is constructed nor any harness built or run.    *)
(***************************************************************************)
C13_ValidationBeforeIsolate ==
    (pc = "done" /\ ValidationError(code, codeType, functionName) # << >>) =>
        /\ outcome[1].kind = "failure"
        /\ outcome[1].message = ValidationError(code, codeType, functionName)[1]
        /\ vmCreated = 0
        /\ vm = << >>
        /\ wrappedCode = << >>

(***************************************************************************)
(* C14: a failure that an inner stage raised with an elapsed-time          *)
(* annotation leaves executeJavaScript with exactly the message and the    *)
(* elapsed time the inner stage set, for every annotated value, 0 too.     *)
(***************************************************************************)
C14_AnnotatedUnchanged ==
    [][ (pc = "catch" /\ pending[1].annotated) =>
            /\ outcome'[1].message = pending[1].message
            /\ outcome'[1].executionTime = pending[1].executionTime ]_vars

(***************************************************************************)
(* C17: on every path out of executeJavaScript after an isolate was        *)
(* constructed, the vm reference is cleared before the call returns or     *)
(* throws.                                                                 *)
(***************************************************************************)
C17_IsolateReleased == (pc = "done" /\ vmCreated > 0) => vm = << >>

(***************************************************************************)
(* C19: arguments that are not JSON-representable (a function, a symbol,   *)
(* a circular structure) make executeJavaScript fail at validation: no     *)
(* isolate is constructed, no harness is built, and the value does not     *)
(* reach the function in an altered form.                                  *)
(***************************************************************************)
C19_OddArgumentsRejected ==
    (pc = "done" /\ \E i \in DOMAIN input : input[i].t \in { "function", "symbol", "circular" })
        => /\ outcome[1].kind = "failure"
           /\ vmCreated = 0
           /\ wrappedCode = << >>

(***************************************************************************)
(* C18: every executeJavaScript call eventually returns a result or throws *)
(* a failure, also when the target function is async and returns a promise *)
(* that never settles.                                                     *)
(***************************************************************************)
C18_Terminates == <>(pc = "done")

(***************************************************************************)
(* C12: every error response of POST /execute (400 for malformed JSON or   *)
(* an invalid field, 500 for a failed execution, 500 for an unexpected     *)
(* error) carries the X-Execution-Time header.                             *)
(***************************************************************************)
C12_ErrorsCarryExecutionTime ==
    (pc = "responded" /\ response[1].status \in { 400, 500 })
        => "X-Execution-Time" \in HeaderNames(response[1])

(***************************************************************************)
(* C15: coercing a bridge handle whose underlying call never settles ends  *)
(* after a bounded number of polling iterations (never more than           *)
(* MaxAttempts) and returns the empty string.                              *)
(***************************************************************************)
C15_CoercionBounded ==
    /\ [](poll.attempts <= MaxAttempts)
    /\ \A n \in 0..(MaxCoercions - 1) :
          (poll.pc = "polling" /\ handle.fate = "never" /\ Len(coerced) = n)
              ~> ( /\ poll.pc = "idle"
                   /\ Len(coerced) = n + 1
                   /\ coerced[n + 1].kind = "returned"
                   /\ coerced[n + 1].value = << "" >> )

\* a handle that never settles was coerced through Symbol.toPrimitive and
\* gave '' after MaxAttempts turns of the loop
C15_Witness ==
    /\ handle.fate = "never"
    /\ poll.pc = "idle"
    /\ coerced # << >>
    /\ coerced[1] = [ via |-> "toPrimitive", kind |-> "returned", value |-> << "" >>,
                      polls |-> MaxAttempts ]

(***************************************************************************)
(* C16: a bridge handle leaves Pending once: after a coercion has given a  *)
(* terminal outcome (a value, an error, or the empty string of a timeout), *)
(* every later coercion gives the same outcome without polling again.      *)
(***************************************************************************)
C16_TerminalOutcomeCached ==
    \A i, j \in DOMAIN coerced :
        i < j => /\ coerced[j].kind = coerced[i].kind
                 /\ coerced[j].value = coerced[i].value
                 /\ coerced[j].polls = 0

(***************************************************************************)
(* C20: when the fetch of the bearer token fails, RestClient still issues  *)
(* its request, with no Authorization header derived from a token, and     *)
(* call() never fails with the token failure; when the token is fetched,   *)
(* the request carries it as its Authorization header.                     *)
(***************************************************************************)
C20_TokenFailureTolerated ==
    restPc = "done" =>
        /\ Len(sent) = 1
        /\ restOutcome[1].value # TokenException
        /\ restEnv.iam = "throws" =>
              Authorizations(sent[1].headers) = Authorizations(restCall.headers)
        /\ restEnv.iam = "token" =>
              Authorizations(sent[1].headers) = { << "Authorization", BearerToken >> }

\* the token fetch failed, the request went out with the caller's headers
\* only, and call() returned the response
C20_Witness ==
    /\ restPc = "done"
    /\ restEnv.iam = "throws"
    /\ Len(sent) = 1
    /\ Authorizations(sent[1].headers) = { }
    /\ restOutcome[1] = [ kind |-> "returned", value |-> << ResponseText >> ]

(***************************************************************************)
(* C21: the harness has exactly one of three shapes: wrapped iff           *)
(* skipWrapper is false; bundled iff skipWrapper is true and the processed *)
(* code holds neither 'import ' nor 'export ' and is longer than 1000      *)
(* characters; pass-through otherwise.  Only the wrapped shape has a       *)
(* try/catch; every shape holds the code, the guard on functionName and    *)
(* the call of functionName with the serialized arguments.                 *)
(***************************************************************************)
C21_HarnessShape ==
    wrappedCode # << >> =>
        LET h == wrappedCode[1]
        IN /\ h.shape \in { "wrapped", "bundled", "passthrough" }
           /\ (h.shape = "wrapped") <=> ~skipWrapper
           /\ (h.shape = "bundled") <=>
                  ( /\ skipWrapper
                    /\ ~ContainsSub(processedCode, << "import", " " >>)
                    /\ ~ContainsSub(processedCode, << "export", " " >>)
                    /\ Length(processedCode) > 1000 )
           /\ h.tryCatch <=> (h.shape = "wrapped")
           /\ h.code = processedCode
           /\ h.guardName = functionName
           /\ h.callName = functionName
           /\ h.args = JsonStringify(input)

\* code of more than 1000 characters that still holds an export statement is
\* passed through, not treated as a bundle
C21_Witness ==
    /\ wrappedCode # << >>
    /\ wrappedCode[1].shape = "passthrough"
    /\ Length(processedCode) > 1000
    /\ ContainsSub(processedCode, << "export", " " >>)

\* what the isolate run of the built harness does
RunResult == VmRun(wrappedCode[1], Sandbox)

\* the message carries none of the classifier's markers
NoMarker(m) ==
    /\ ~Includes(m, "timeout")
    /\ ~Includes(m, "not allowed") /\ ~Includes(m, "restricted")
    /\ ~Includes(m, "not defined") /\ ~Includes(m, "not a function")

\* the submitted function threw an Error while it ran
CodeThrewError ==
    /\ pc = "done"
    /\ wrappedCode # << >>
    /\ RunResult.kind = "throw"
    /\ RunResult.isError
    /\ RunResult.message = BoomMessage

\* C22: an Error thrown by the submitted code while it runs, with a message
\* that carries no timeout, restricted or not-found marker, is reported as the
\* thrown message prefixed with 'Execution error: '
C22_RuntimeErrorPrefixed ==
    (CodeThrewError /\ NoMarker(RunResult.message)) =>
        /\ outcome # << >>
        /\ outcome[1].kind = "failure"
        /\ outcome[1].message = << ExecutionErrorPrefix >> \o RunResult.message

\* the submitted function threw a value that is not an Error
CodeThrewValue ==
    /\ pc = "done"
    /\ wrappedCode # << >>
    /\ RunResult.kind = "throw"
    /\ ~RunResult.isError

\* C23: when the submitted code throws a value that is not an Error, the call
\* fails with the message 'Unknown execution error occurred'
C23_NonErrorIsUnknown ==
    CodeThrewValue =>
        /\ outcome # << >>
        /\ outcome[1].kind = "failure"
        /\ outcome[1].message = UnknownMessage

\* C29: once the call has ended, by a result or by a failure, no timer the
\* submitted code scheduled through the sandbox is still pending
C29_NothingOutlivesRequest ==
    pc = "done" => timers = { }

\* the atoms that are, or are part of, an identifier
NameAtoms == { "myRestClient", "client", "old" }

\* the code with every .call( on the variable myRestClient awaited and nothing
\* else changed; prev is the atom before s
RECURSIVE AwaitOwnCalls(_, _)
AwaitOwnCalls(s, prev) ==
    IF s = << >> THEN << >>
    ELSE IF CallMatchEnd(s) > 0 /\ prev \notin NameAtoms
    THEN << "await", " ", "myRestClient", ".call", "(" >>
         \o AwaitOwnCalls(SubSeq(s, CallMatchEnd(s) + 1, Len(s)), "(")
    ELSE << s[1] >> \o AwaitOwnCalls(Tail(s), s[1])

AllMarkers(c) ==
    /\ Includes(c, JavaTypeRestClient)
    /\ Includes(c, NewRestClient)
    /\ ContainsSub(c, << ".call", "(" >>)

\* C24: the pre-pass changes the code only when all three markers are present;
\* then every myRestClient.call( becomes 'await myRestClient.call(' and a
\* .call( on a variable of any other name stays as it was
C24_OnlyOwnCallsAwaited ==
    pc = "await_done" =>
        processedCode = IF AllMarkers(cleanedCode)
                        THEN AwaitOwnCalls(cleanedCode, ";")
                        ELSE cleanedCode

\* a coercion returns in this step
Returns == poll.pc = "polling" /\ poll'.pc = "idle"

\* what the settled call gives: the response body, or the original error
SettledOutcome(h, c) ==
    IF h.promise = "fulfilled"
    THEN c.kind = "returned" /\ c.value = << ResponseText >>
    ELSE c.kind = "threw" /\ c.value = HttpError

\* C25: a coercion that began while the call was pending, and during whose
\* polling the call settled, ends with the settled outcome and not with ''
C25_SettlesWhilePolling ==
    [][ (Returns /\ poll.began = "pending" /\ handle.promise # "pending")
            => SettledOutcome(handle, coerced'[Len(coerced')]) ]_vars

\* C26: a handle never holds both a body and an error, and a coercion made
\* after the call has failed raises the original error
C26_ErrorRaisedAtCoercion ==
    [][ /\ ~(handle'.result # "" /\ handle'.error # << >>)
        /\ (Returns /\ poll.began = "rejected")
               => LET c == coerced'[Len(coerced')]
                  IN c.kind = "threw" /\ c.value = HttpError ]_vars

\* C27: Java.type gives the client class for the recognized name and an inert
\* class for any other; call() returns at once a pending handle, and turning
\* that handle into a string gives the response text
C27_CallReturnsBridgeHandle ==
    /\ client.type # << >> =>
          (client.type[1] = "RestClient") <=> (client.className = RestClientClass)
    /\ restPc = "inert" => client.type = << "UnknownClass" >> /\ sent = << >>
    /\ client.returned # << >> => client.returned[1] = "SyncResponse"
    /\ (client.text # << >> /\ restEnv.net = "ok") => client.text = << ResponseText >>

\* the request passed every check of the handler and of the executor, and
\* its code defines the function it names
ValidSysRequest ==
    /\ http # << >> /\ sys.variable # << >>
    /\ wrappedCode # << >>
    /\ \E d \in DefAtoms : Includes(code, d) /\ DefName(d) = functionName

\* C30: for every valid request to /execute-with-sys, with or without a token,
\* the function is called with the system variable first and then the
\* request's input in order; without a token the system variable's
\* authorization is 'Bearer' and the execution still takes place
C30_SystemVariableFirst ==
    /\ (pc = "inject" /\ sys.iam = "throws") => sys.iamToken = << >>
    /\ ValidSysRequest =>
          /\ ThrownBeforeCall(wrappedCode[1]) = << >>
          /\ CallArguments(wrappedCode[1]) = sys.variable \o sys.original
          /\ Len(CallArguments(wrappedCode[1])) = Len(sys.original) + 1
          /\ sys.iam = "throws" =>
                SystemVariables[sys.variable[1].v].authorization = "Bearer"

\* C28: each call constructs at most one isolate, and under every
\* interleaving of concurrent calls an isolate runs only the harness of the
\* call that constructed it
C28_IsolateNotShared ==
    /\ \A c \in DOMAIN calls :
          Cardinality({ i \in DOMAIN isolates : isolates[i].owner = c }) <= 1
    /\ \A i \in DOMAIN isolates : isolates[i].ran \subseteq { isolates[i].owner }
    /\ \A c \in DOMAIN calls :
          calls[c].wrappedCode # << >> =>
             /\ calls[c].wrappedCode[1].callName = calls[c].functionName
             /\ calls[c].wrappedCode[1].args = JsonStringify(calls[c].input)

\* two calls interleaved: the call that constructed the second isolate has
\* run in it while the call that constructed the first is still about to run
C28_Witness ==
    /\ Len(isolates) = 2
    /\ isolates[1].owner # isolates[2].owner
    /\ isolates[1].ran = { }
    /\ isolates[2].ran = { isolates[2].owner }
    /\ calls[isolates[1].owner].pc = "running"

====
